---- MODULE Spec2Model ----
(***************************************************************************)
(* The ATM locator bot: name matching (normalizeText, getSimilarityScore,  *)
(* extractNameAfterDash, findATMsByName) and proximity ranking             *)
(* (calculateDistance, gebetaOneToMany, getNearestATMs,                    *)
(* getATMsSortedByProximity) with the two message handlers that drive      *)
(* them.  The repository holds two variants of the program: src/bot.js     *)
(* ("bot") and src/unnamed/part_000 ("old"); the variable `variant` says   *)
(* which of the two is running.                                            *)
(*                                                                         *)
(* A JavaScript string is a sequence of one-character strings.             *)
(***************************************************************************)
EXTENDS Integers, Sequences, FiniteSets, TLC

VARIABLES variant, atms, req, pure

vars == <<variant, atms, req, pure>>

(***************************************************************************)
(* Bounds of the model.                                                    *)
(***************************************************************************)
\* longest raw string given to getSimilarityScore / findATMsByName
MaxLen == 3
\* longest second argument of getSimilarityScore
MaxLen2 == 2
\* longest raw name given to extractNameAfterDash
MaxNameLen == 5

\* characters of the strings scored: vowels, the "iya" digraph, a consonant
\* that is folded (t), one that is kept (y), and whitespace
ScoreAlphabet == {"a", "i", "y", "t", " "}
\* characters of the names split at the dash
NameAlphabet == {"a", "b", "-", " "}

RECURSIVE StringsUpTo(_, _)
StringsUpTo(alphabet, n) ==
  IF n = 0 THEN {<<>>}
  ELSE LET shorter == StringsUpTo(alphabet, n - 1)
       IN  shorter \cup {Append(s, c) : s \in shorter, c \in alphabet}

(***************************************************************************)
(* String primitives of the JavaScript runtime.                            *)
(***************************************************************************)
Vowels == {"a", "e", "i", "o", "u"}
Whitespace == {" "}

\* String.prototype.toLowerCase, on the letters the model uses
ToLowerChar(c) ==
  CASE c = "A" -> "a" [] c = "B" -> "b" [] c = "C" -> "c" [] c = "I" -> "i"
    [] c = "K" -> "k" [] c = "P" -> "p" [] c = "Q" -> "q" [] c = "S" -> "s"
    [] c = "T" -> "t" [] c = "X" -> "x" [] c = "Y" -> "y"
    [] OTHER -> c

ToLowerCase(s) == [i \in 1..Len(s) |-> ToLowerChar(s[i])]

\* .replace(/c/gi, to) for a single character c
ReplaceChar(s, from, to) ==
  [i \in 1..Len(s) |-> IF s[i] = from THEN to ELSE s[i]]

RECURSIVE RemoveChars(_, _)
RemoveChars(s, set) ==
  IF s = <<>> THEN <<>>
  ELSE IF Head(s) \in set THEN RemoveChars(Tail(s), set)
  ELSE <<Head(s)>> \o RemoveChars(Tail(s), set)

\* .replace(/iya/gi, 'ia'): leftmost, non-overlapping, replaced text not rescanned
RECURSIVE ReplaceIya(_)
ReplaceIya(s) ==
  IF Len(s) >= 3 /\ SubSeq(s, 1, 3) = <<"i", "y", "a">>
  THEN <<"i", "a">> \o ReplaceIya(SubSeq(s, 4, Len(s)))
  ELSE IF s = <<>> THEN <<>>
  ELSE <<Head(s)>> \o ReplaceIya(Tail(s))

\* String.prototype.includes: sub occurs in s as a contiguous run
Includes(s, sub) ==
  \E i \in 0..(Len(s) - Len(sub)) : SubSeq(s, i + 1, i + Len(sub)) = sub

\* String.prototype.trim
RECURSIVE TrimStart(_)
TrimStart(s) ==
  IF s # <<>> /\ Head(s) \in Whitespace THEN TrimStart(Tail(s)) ELSE s

RECURSIVE TrimEnd(_)
TrimEnd(s) ==
  IF s # <<>> /\ s[Len(s)] \in Whitespace
  THEN TrimEnd(SubSeq(s, 1, Len(s) - 1)) ELSE s

Trim(s) == TrimEnd(TrimStart(s))

\* String.prototype.split('-'): the pieces between the dashes, empty ones kept
RECURSIVE SplitDash(_)
SplitDash(s) ==
  IF \A i \in 1..Len(s) : s[i] # "-" THEN <<s>>
  ELSE LET k == CHOOSE i \in 1..Len(s) :
                  s[i] = "-" /\ \A j \in 1..(i - 1) : s[j] # "-"
       IN  <<SubSeq(s, 1, k - 1)>> \o SplitDash(SubSeq(s, k + 1, Len(s)))

(***************************************************************************)
(* Name matching (src/unnamed/part_000).                                   *)
(***************************************************************************)
normalizeText(text) ==
  LET lower    == ToLowerCase(text)
      iya      == ReplaceIya(lower)
      noVowels == RemoveChars(iya, Vowels)
      tx       == ReplaceChar(noVowels, "t", "x")
      kq       == ReplaceChar(tx, "k", "q")
  IN  RemoveChars(kq, Whitespace)

\* parts[1] of the JavaScript array is the second piece
extractNameAfterDash(fullName) ==
  LET parts == SplitDash(fullName)
  IN  IF Len(parts) > 1 THEN Trim(parts[2]) ELSE Trim(fullName)

\* A score is the exact fraction num/den of the number the code computes.
ScoreOne == [num |-> 1, den |-> 1]
ScoreZero == [num |-> 0, den |-> 1]
ScoreContains == [num |-> 4, den |-> 5]
ScoreThreshold == [num |-> 3, den |-> 10]

ScoreGT(x, y) == x.num * y.den > y.num * x.den
ScoreEQ(x, y) == x.num * y.den = y.num * x.den

Min3(x, y, z) ==
  IF x <= y /\ x <= z THEN x ELSE IF y <= z THEN y ELSE z

\* the shorter length in place of the longer one
MinLen(x, y) == IF x <= y THEN x ELSE y

\* Math.max(m, n)
Max2(x, y) == IF x >= y THEN x ELSE y

\* dp[m][n] of the table filled at lines 113-130
Levenshtein(norm1, norm2) ==
  LET m == Len(norm1)
      n == Len(norm2)
      dp[i \in 0..m, j \in 0..n] ==
        IF j = 0 THEN i
        ELSE IF i = 0 THEN j
        ELSE IF norm1[i] = norm2[j] THEN dp[i - 1, j - 1]
        ELSE Min3(dp[i - 1, j] + 1, dp[i, j - 1] + 1, dp[i - 1, j - 1] + 1)
  IN  dp[m, n]

\* a containment test that looks in one direction only
ContainedOneWay(norm1, norm2) == Includes(norm1, norm2)

\* norm1.includes(norm2) || norm2.includes(norm1)
Contained(norm1, norm2) == Includes(norm1, norm2) \/ Includes(norm2, norm1)

getSimilarityScore(str1, str2) ==
  LET norm1 == normalizeText(str1)
      norm2 == normalizeText(str2)
      m == Len(norm1)
      n == Len(norm2)
  IN  IF norm1 = norm2 THEN ScoreOne
      ELSE IF Contained(norm1, norm2) THEN ScoreContains
      ELSE IF m = 0 THEN (IF n = 0 THEN ScoreOne ELSE ScoreZero)
      ELSE IF n = 0 THEN ScoreZero
      ELSE LET maxLen == Max2(m, n)
           IN  [num |-> maxLen - Levenshtein(norm1, norm2), den |-> maxLen]

(***************************************************************************)
(* Sorting and slicing.  Array.prototype.sort is stable (ES2019), so an    *)
(* insertion sort that keeps equal elements in input order models it.      *)
(***************************************************************************)
Min2(x, y) == IF x <= y THEN x ELSE y

\* Array.prototype.slice(0, k)
Slice(s, k) == SubSeq(s, 1, Min2(k, Len(s)))

\* x goes before the first element that must come strictly after it
RECURSIVE InsertBy(_, _, _)
InsertBy(sorted, x, key) ==
  IF sorted = <<>> THEN <<x>>
  ELSE IF x[key] < Head(sorted)[key] THEN <<x>> \o sorted
  ELSE <<Head(sorted)>> \o InsertBy(Tail(sorted), x, key)

\* .sort((a, b) => a[key] - b[key])
RECURSIVE SortAscBy(_, _)
SortAscBy(s, key) ==
  IF s = <<>> THEN <<>>
  ELSE InsertBy(SortAscBy(SubSeq(s, 1, Len(s) - 1), key), s[Len(s)], key)

RECURSIVE InsertByScore(_, _)
InsertByScore(sorted, x) ==
  IF sorted = <<>> THEN <<x>>
  ELSE IF ScoreGT(x.score, Head(sorted).score) THEN <<x>> \o sorted
  ELSE <<Head(sorted)>> \o InsertByScore(Tail(sorted), x)

\* .sort((a, b) => b.score - a.score)
RECURSIVE SortDescByScore(_)
SortDescByScore(s) ==
  IF s = <<>> THEN <<>>
  ELSE InsertByScore(SortDescByScore(SubSeq(s, 1, Len(s) - 1)), s[Len(s)])

\* { ...atm, score }
WithScore(atm, score) ==
  [id |-> atm.id, name |-> atm.name, lat |-> atm.lat, lon |-> atm.lon,
   score |-> score]

\* a threshold of one half
AboveHalf(m) == ScoreGT(m.score, [num |-> 1, den |-> 2])

\* matches.filter(m => m.score > 0.3)
AboveThreshold(m) == ScoreGT(m.score, ScoreThreshold)

findATMsByName(catalog, searchName) ==
  LET matches == [i \in 1..Len(catalog) |->
                    WithScore(catalog[i],
                              getSimilarityScore(searchName,
                                                 extractNameAfterDash(catalog[i].name)))]
      filtered == SelectSeq(matches, AboveThreshold)
  IN  SortDescByScore(filtered)

(***************************************************************************)
(* The catalog (loadATMs).  Coordinates are grid offsets inside one town;  *)
(* names carry a "Bank-" prefix, some none, some two dashes.               *)
(***************************************************************************)
\* sizes of the catalogs: below Limit, between Limit and ShortlistSize, above
SmallN == 2
MidN == 7
MaxN == 11

NamePool ==
  << <<"B", "-", "t", "a", "y">>,
     <<"B", "-", "i", "t", "a">>,
     <<"y", "a", "t">>,
     <<"B", "-", "a", "y", "a", "-", "t">>,
     <<"B", "-", " ", "a", "i">>,
     <<"B", "-", "K", "y", "t">>,
     <<"B", "-", "t", "i", "y", "a">> >>

Catalog(n) ==
  [i \in 1..n |->
     [id |-> i,
      name |-> NamePool[((i - 1) % Len(NamePool)) + 1],
      lat |-> (i * 5) % 7,
      lon |-> (i * 3) % 4]]

Catalogs == {Catalog(n) : n \in {SmallN, MidN, MaxN}}

(***************************************************************************)
(* Proximity ranking.                                                      *)
(***************************************************************************)
\* first 10 by Haversine, best 5 returned
ShortlistSize == 10
Limit == 5
\* distance given to an entry the old variant finds no route for
Sentinel == 9999
\* the old variant converts the reported metres to km
MetresPerKm == 1000

\* The haversine distance, on grid coordinates: an integer that grows with
\* the great-circle distance between two points of the grid (0 for the same
\* point, symmetric).
calculateDistance(lat1, lon1, lat2, lon2) ==
  (lat2 - lat1) * (lat2 - lat1) + (lon2 - lon1) * (lon2 - lon1)

\* { ...atm, distance }
WithDistance(atm, distance) ==
  [id |-> atm.id, name |-> atm.name, lat |-> atm.lat, lon |-> atm.lon,
   distance |-> distance]

withDistances(catalog, lat, lon) ==
  [i \in 1..Len(catalog) |->
     WithDistance(catalog[i],
                  calculateDistance(lat, lon, catalog[i].lat, catalog[i].lon))]

\* withDistances.sort((a, b) => a.distance - b.distance).slice(0, 10)
closest10(catalog, lat, lon) ==
  Slice(SortAscBy(withDistances(catalog, lat, lon), "distance"), ShortlistSize)

\* a fallback that forgets the slice
FallbackUnsliced(shortlist) == shortlist

\* src/bot.js: closest10.slice(0, 5)
Fallback(shortlist) == Slice(shortlist, Limit)

\* src/unnamed/part_000: the Haversine ranking computed after the failure
FallbackOld(catalog, lat, lon) ==
  Slice(SortAscBy(withDistances(catalog, lat, lon), "distance"), Limit)

\* response.origin_to_destination[idx + 1] / response.routes[idx]; an index past
\* the end of the array reads undefined, modelled as the empty sequence
RouteAt(routes, i) == IF i \in 1..Len(routes) THEN <<routes[i]>> ELSE <<>>

\* routeData && routeData.distance !== undefined
HasDistance(routeData) ==
  routeData # <<>> /\ "distance" \in DOMAIN routeData[1]

\* one entry of withApiDistances (src/bot.js); duration null is <<>>
ApiEntry(atm, routeData) ==
  [id |-> atm.id, name |-> atm.name, lat |-> atm.lat, lon |-> atm.lon,
   distance |-> atm.distance,
   apiDistance |-> IF HasDistance(routeData)
                   THEN routeData[1].distance ELSE atm.distance,
   duration |-> IF routeData # <<>> /\ "time" \in DOMAIN routeData[1]
                THEN <<routeData[1].time>> ELSE <<>>,
   haversineDistance |-> atm.distance]

\* origin_to_destination[0] is origin to origin: entry idx reads index idx + 1,
\* which is position p + 1 of the 1-based sequence
withApiDistances(shortlist, routes) ==
  [p \in 1..Len(shortlist) |-> ApiEntry(shortlist[p], RouteAt(routes, p + 1))]

\* a ranking that forgets the slice
best5Unsliced(shortlist, routes) ==
  SortAscBy(withApiDistances(shortlist, routes), "apiDistance")

\* withApiDistances.sort((a, b) => a.apiDistance - b.apiDistance).slice(0, 5)
best5(shortlist, routes) ==
  Slice(SortAscBy(withApiDistances(shortlist, routes), "apiDistance"), Limit)

\* best5.map(atm => ({ ...atm, distance: atm.apiDistance }))
Refined(shortlist, routes) ==
  LET best == best5(shortlist, routes)
  IN  [p \in 1..Len(best) |-> [best[p] EXCEPT !.distance = best[p].apiDistance]]

\* route && route.distance ? route.distance / 1000 : 9999  (0 is falsy)
OldDistance(route) ==
  IF route # <<>> /\ "distance" \in DOMAIN route[1] /\ route[1].distance # 0
  THEN route[1].distance \div MetresPerKm ELSE Sentinel

\* route && route.duration ? route.duration : null
OldDuration(route) ==
  IF route # <<>> /\ "duration" \in DOMAIN route[1] /\ route[1].duration # 0
  THEN <<route[1].duration>> ELSE <<>>

OldEntry(atm, route) ==
  [id |-> atm.id, name |-> atm.name, lat |-> atm.lat, lon |-> atm.lon,
   distance |-> OldDistance(route), duration |-> OldDuration(route)]

\* src/unnamed/part_000: routes[idx] is position idx + 1 of the 1-based sequence
RefinedOld(catalog, routes) ==
  Slice(SortAscBy([p \in 1..Len(catalog) |->
                     OldEntry(catalog[p], RouteAt(routes, p))],
                  "distance"),
        Limit)

\* src/unnamed/part_000 getATMsSortedByProximity: Haversine only
SortedByProximityOld(catalog, refATM) ==
  Slice(SortAscBy(withDistances(catalog, refATM.lat, refATM.lon), "distance"),
        Limit)

(***************************************************************************)
(* The routing service (gebetaOneToMany).  The promise is rejected on a    *)
(* network error, a status other than 200 or a body JSON.parse refuses,    *)
(* and resolved with the parsed body otherwise; https.get sets no timeout, *)
(* so a service that stays silent leaves the promise pending.              *)
(***************************************************************************)
\* the route array is empty or at most LenSlack entries shorter or longer
\* than the list of destinations sent
LenSlack == 2

RejectReasons == {"network", "status", "parse"}

\* reported distance of entry i of an array of len entries
PatternDistance(pat, i, len) == IF pat = "rev" THEN len - i ELSE i - 1

\* entry i of a route array; entry `hole` carries no distance field.  The
\* bot variant reads {distance, time}, the old one {distance (m), duration}.
RouteEntry(v, i, len, pat, hole) ==
  IF v = "bot"
  THEN IF i = hole THEN [time |-> 60 * i]
       ELSE [distance |-> PatternDistance(pat, i, len), time |-> 60 * i]
  ELSE IF i = hole THEN [duration |-> 60 * i]
       ELSE [distance |-> PatternDistance(pat, i, len) * MetresPerKm,
             duration |-> 60 * i]

RouteLengths(ndest) ==
  {0} \cup {len \in (ndest - LenSlack)..(ndest + LenSlack) : len >= 0}

\* distances that follow the order of the destinations or reverse it, with
\* every entry complete (hole 0) or the second entry lacking its distance
RouteArrays(v, ndest) ==
  {[i \in 1..len |-> RouteEntry(v, i, len, pat, hole)] :
     len \in RouteLengths(ndest), pat \in {"asc", "rev"}, hole \in {0, 2}}

\* parsed bodies: one with the route array, one without it
Bodies(v, ndest) ==
  {[hasRoutes |-> TRUE, routes |-> a] : a \in RouteArrays(v, ndest)}
    \cup {[hasRoutes |-> FALSE, routes |-> <<>>]}

(***************************************************************************)
(* Requests.  Each update is handled by one invocation of a message        *)
(* handler; its locals are the fields of req[r].                           *)
(*   pc        idle | refining (awaiting gebetaOneToMany) | done           *)
(*   net       none | pending | silent (the service will never answer)     *)
(*   settled   <<>> or <<how the promise settled>>                         *)
(*   reply     none | results | nomatch | empty | error                    *)
(***************************************************************************)
\* two updates are handled at a time
Requests == {1, 2}

RefPoints == {[lat |-> 0, lon |-> 0], [lat |-> 3, lon |-> 1]}

Queries ==
  { <<"t", "a", "y">>, <<"a">>, <<"p", "p", "p">> }

IdleReq ==
  [pc |-> "idle", kind |-> "none", lat |-> 0, lon |-> 0, query |-> <<>>,
   matches |-> <<>>, shortlist |-> <<>>, dest |-> <<>>, calls |-> 0,
   net |-> "none", settled |-> <<>>, result |-> <<>>, reply |-> "none"]

\* the call is issued: one GET with the coordinates of the destinations, in
\* order (the id is kept to tell which catalog entry each pair belongs to)
gebetaOneToMany(q, destinations) ==
  [q EXCEPT !.pc = "refining",
            !.dest = [i \in 1..Len(destinations) |->
                        [id |-> destinations[i].id, lat |-> destinations[i].lat,
                         lon |-> destinations[i].lon]],
            !.calls = @ + 1,
            !.net = "pending"]

\* what the handler answers once the ranking has returned
ReplyFor(result) == IF Len(result) = 0 THEN "empty" ELSE "results"

Return(q, result) ==
  [q EXCEPT !.pc = "done", !.net = "none", !.result = result,
            !.reply = ReplyFor(result)]

\* a catch block that calls the service once more
OnRejectRetry(q) ==
  IF q.calls < 2 THEN gebetaOneToMany(q, q.shortlist)
  ELSE Return(q, Fallback(q.shortlist))

\* src/bot.js, the catch block and the fallback after it
OnRejectBot(q) == Return(q, Fallback(q.shortlist))

\* src/bot.js, the continuation of the await when the promise resolves
OnResolveBot(q, body) ==
  IF body.hasRoutes
  THEN Return(q, Refined(q.shortlist, body.routes))
  ELSE Return(q, Fallback(q.shortlist))

\* src/unnamed/part_000 getNearestATMs
OnRejectOld(catalog, q) == Return(q, FallbackOld(catalog, q.lat, q.lon))

OnResolveOld(catalog, q, body) ==
  IF body.hasRoutes
  THEN Return(q, RefinedOld(catalog, body.routes))
  ELSE Return(q, FallbackOld(catalog, q.lat, q.lon))

\* a sort applied to the catalog array itself, which takes the sorted order
sortedInPlace(catalog, sorted) ==
  [i \in 1..Len(catalog) |->
     [id |-> sorted[i].id, name |-> sorted[i].name,
      lat |-> sorted[i].lat, lon |-> sorted[i].lon]]

\* the catalog after a ranking: atms.map(...) returns a new array and sort
\* reorders that array, so the catalog keeps its contents and its order
catalogAfter(catalog, sorted) == catalog

\* withDistances.sort((a, b) => a.distance - b.distance), before the slice
sortedByDistance(catalog, lat, lon) ==
  SortAscBy(withDistances(catalog, lat, lon), "distance")

\* a reference taken from the end of the list of matches
referenceLast(referenceATMs) == referenceATMs[Len(referenceATMs)]

\* const refATM = referenceATMs[0]
referenceOf(referenceATMs) == referenceATMs[1]

\* fuzzy.filter is a library outside the repository: its answer is an input,
\* a list of catalog entries with the library's scores, best first
FuzzyCases(catalog) ==
  { [query |-> <<"p", "p", "p">>, answer |-> <<>>],
    [query |-> <<"t", "a", "y">>,
     answer |-> <<WithScore(catalog[1], ScoreOne)>>],
    [query |-> <<"a">>,
     answer |-> <<WithScore(catalog[2], [num |-> 3, den |-> 1]),
                  WithScore(catalog[1], ScoreOne)>>] }

(***************************************************************************)
(* The handlers.                                                           *)
(***************************************************************************)
\* src/bot.js bot.on('message:location'): getNearestATMs up to its await
LocationMessageBot(r) ==
  /\ variant = "bot"
  /\ req[r].pc = "idle"
  /\ \E pt \in RefPoints :
       LET shortlist == closest10(atms, pt.lat, pt.lon)
           q == [IdleReq EXCEPT !.kind = "location", !.lat = pt.lat,
                                !.lon = pt.lon, !.shortlist = shortlist]
       IN  /\ req' = [req EXCEPT ![r] = gebetaOneToMany(q, shortlist)]
           /\ atms' = catalogAfter(atms, sortedByDistance(atms, pt.lat, pt.lon))
  /\ UNCHANGED <<variant, pure>>

\* src/unnamed/part_000 bot.on('message:location'): the whole catalog is sent
LocationMessageOld(r) ==
  /\ variant = "old"
  /\ req[r].pc = "idle"
  /\ \E pt \in RefPoints :
       LET q == [IdleReq EXCEPT !.kind = "location", !.lat = pt.lat,
                                !.lon = pt.lon]
       IN  req' = [req EXCEPT ![r] = gebetaOneToMany(q, atms)]
  /\ UNCHANGED <<variant, atms, pure>>

\* src/bot.js bot.on('message:text'): findATMsByName (fuzzy.filter), then
\* getATMsSortedByProximity up to its await
TextMessageBot(r) ==
  /\ variant = "bot"
  /\ req[r].pc = "idle"
  /\ \E case \in FuzzyCases(atms) :
       LET matchingATMs == case.answer
           q == [IdleReq EXCEPT !.kind = "text", !.query = case.query,
                                !.matches = matchingATMs]
       IN  IF Len(matchingATMs) = 0
           THEN /\ req' = [req EXCEPT ![r] = [q EXCEPT !.pc = "done",
                                                       !.reply = "nomatch"]]
                /\ atms' = atms
           ELSE LET refATM == referenceOf(matchingATMs)
                    shortlist == closest10(atms, refATM.lat, refATM.lon)
                    q2 == [q EXCEPT !.lat = refATM.lat, !.lon = refATM.lon,
                                    !.shortlist = shortlist]
                IN  /\ req' = [req EXCEPT ![r] = gebetaOneToMany(q2, shortlist)]
                    /\ atms' = catalogAfter(atms,
                                 sortedByDistance(atms, refATM.lat, refATM.lon))
  /\ UNCHANGED <<variant, pure>>

\* src/unnamed/part_000 bot.on('message:text'): findATMsByName, then
\* getATMsSortedByProximity, which makes no routing call
TextMessageOld(r) ==
  /\ variant = "old"
  /\ req[r].pc = "idle"
  /\ \E query \in Queries :
       LET matchingATMs == findATMsByName(atms, query)
           q == [IdleReq EXCEPT !.kind = "text", !.query = query,
                                !.matches = matchingATMs]
       IN  IF Len(matchingATMs) = 0
           THEN /\ req' = [req EXCEPT ![r] = [q EXCEPT !.pc = "done",
                                                       !.reply = "nomatch"]]
                /\ atms' = atms
           ELSE LET refATM == referenceOf(matchingATMs)
                    q2 == [q EXCEPT !.lat = refATM.lat, !.lon = refATM.lon]
                IN  /\ req' = [req EXCEPT ![r] =
                                 Return(q2, SortedByProximityOld(atms, refATM))]
                    /\ atms' = catalogAfter(atms,
                                 sortedByDistance(atms, refATM.lat, refATM.lon))
  /\ UNCHANGED <<variant, pure>>

\* the promise is rejected
RouteRejectBot(r) ==
  /\ variant = "bot"
  /\ req[r].pc = "refining" /\ req[r].net = "pending"
  /\ \E reason \in RejectReasons :
       req' = [req EXCEPT ![r] =
                 OnRejectBot([req[r] EXCEPT !.settled = <<[kind |-> reason]>>])]
  /\ UNCHANGED <<variant, atms, pure>>

RouteRejectOld(r) ==
  /\ variant = "old"
  /\ req[r].pc = "refining" /\ req[r].net = "pending"
  /\ \E reason \in RejectReasons :
       req' = [req EXCEPT ![r] =
                 OnRejectOld(atms, [req[r] EXCEPT !.settled = <<[kind |-> reason]>>])]
  /\ atms' = catalogAfter(atms, sortedByDistance(atms, req[r].lat, req[r].lon))
  /\ UNCHANGED <<variant, pure>>

\* the promise is resolved with a parsed body
RouteResolveBot(r) ==
  /\ variant = "bot"
  /\ req[r].pc = "refining" /\ req[r].net = "pending"
  /\ \E body \in Bodies("bot", Len(req[r].dest)) :
       req' = [req EXCEPT ![r] =
                 OnResolveBot([req[r] EXCEPT !.settled =
                                 <<[kind |-> "body", body |-> body]>>], body)]
  /\ UNCHANGED <<variant, atms, pure>>

RouteResolveOld(r) ==
  /\ variant = "old"
  /\ req[r].pc = "refining" /\ req[r].net = "pending"
  /\ \E body \in Bodies("old", Len(req[r].dest)) :
       /\ req' = [req EXCEPT ![r] =
                    OnResolveOld(atms, [req[r] EXCEPT !.settled =
                                          <<[kind |-> "body", body |-> body]>>], body)]
       /\ atms' = catalogAfter(atms,
                    IF body.hasRoutes
                    THEN SortAscBy([p \in 1..Len(atms) |->
                                      OldEntry(atms[p], RouteAt(body.routes, p))],
                                   "distance")
                    ELSE sortedByDistance(atms, req[r].lat, req[r].lon))
  /\ UNCHANGED <<variant, pure>>

\* the service never answers: nothing in the code ends the wait
RouteSilent(r) ==
  /\ req[r].pc = "refining" /\ req[r].net = "pending"
  /\ req' = [req EXCEPT ![r].net = "silent"]
  /\ UNCHANGED <<variant, atms, pure>>

\* the handler has sent its replies and returns; its locals are gone
Deliver(r) ==
  /\ req[r].pc = "done"
  /\ req' = [req EXCEPT ![r] = IdleReq]
  /\ UNCHANGED <<variant, atms, pure>>

NoPure == [op |-> "none", a |-> <<>>, b |-> <<>>, out |-> <<>>]

Init ==
  /\ variant \in {"bot", "old"}
  /\ atms \in Catalogs
  /\ req = [r \in Requests |-> IdleReq]
  /\ pure = NoPure

Next ==
  \E r \in Requests :
    \/ LocationMessageBot(r)
    \/ LocationMessageOld(r)
    \/ TextMessageBot(r)
    \/ TextMessageOld(r)
    \/ RouteRejectBot(r)
    \/ RouteRejectOld(r)
    \/ RouteResolveBot(r)
    \/ RouteResolveOld(r)
    \/ RouteSilent(r)
    \/ Deliver(r)

Spec == Init /\ [][Next]_vars

\* The same program on the smallest catalog, with the fairness of its
\* scheduling: the event loop runs every continuation that is ready, and the
\* service eventually answers, fails or goes silent for good.  Users need not
\* write.
FairInit == Init /\ Len(atms) = SmallN

Settle(r) ==
  \/ RouteRejectBot(r)
  \/ RouteRejectOld(r)
  \/ RouteResolveBot(r)
  \/ RouteResolveOld(r)
  \/ RouteSilent(r)

FairSpec ==
  /\ FairInit
  /\ [][Next]_vars
  /\ \A r \in Requests : WF_vars(Settle(r)) /\ WF_vars(Deliver(r))

(***************************************************************************)
(* The pure functions of the name matcher, applied to every input of the   *)
(* bounded sets: pure.a and pure.b are the arguments, pure.out is <<>>     *)
(* until the function has been applied and <<its value>> afterwards.       *)
(***************************************************************************)
ScoreInputs ==
  {[op |-> "score", a |-> a, b |-> b, out |-> <<>>] :
     a \in StringsUpTo(ScoreAlphabet, MaxLen),
     b \in StringsUpTo(ScoreAlphabet, MaxLen2)}

ExtractInputs ==
  {[op |-> "extract", a |-> a, b |-> <<>>, out |-> <<>>] :
     a \in StringsUpTo(NameAlphabet, MaxNameLen)}

\* a pair of strings scored in both orders
BothInputs ==
  {[op |-> "both", a |-> a, b |-> b, out |-> <<>>] :
     a \in StringsUpTo(ScoreAlphabet, MaxLen),
     b \in StringsUpTo(ScoreAlphabet, MaxLen2)}

FindInputs ==
  {[op |-> "find", a |-> a, b |-> <<>>, out |-> <<>>] :
     a \in StringsUpTo(ScoreAlphabet, MaxLen)}

PureInit ==
  /\ variant = "old"
  /\ req = [r \in Requests |-> IdleReq]
  /\ \/ atms = Catalog(MidN) /\ pure \in ScoreInputs
     \/ atms = Catalog(MidN) /\ pure \in BothInputs
     \/ atms = Catalog(MidN) /\ pure \in ExtractInputs
     \/ atms \in Catalogs /\ pure \in FindInputs

ApplyScore ==
  /\ pure.op = "score" /\ pure.out = <<>>
  /\ pure' = [pure EXCEPT !.out = <<getSimilarityScore(pure.a, pure.b)>>]
  /\ UNCHANGED <<variant, atms, req>>

ApplyBoth ==
  /\ pure.op = "both" /\ pure.out = <<>>
  /\ pure' = [pure EXCEPT !.out = <<getSimilarityScore(pure.a, pure.b),
                                    getSimilarityScore(pure.b, pure.a)>>]
  /\ UNCHANGED <<variant, atms, req>>

ApplyExtract ==
  /\ pure.op = "extract" /\ pure.out = <<>>
  /\ pure' = [pure EXCEPT !.out = <<extractNameAfterDash(pure.a)>>]
  /\ UNCHANGED <<variant, atms, req>>

ApplyFind ==
  /\ pure.op = "find" /\ pure.out = <<>>
  /\ pure' = [pure EXCEPT !.out = <<findATMsByName(atms, pure.a)>>]
  /\ UNCHANGED <<variant, atms, req>>

PureNext == ApplyScore \/ ApplyBoth \/ ApplyExtract \/ ApplyFind

PureSpec == PureInit /\ [][PureNext]_vars

(***************************************************************************)
(* Vocabulary of the properties.                                           *)
(***************************************************************************)
\* the catalog entry a ranked entry was copied from (ids are the positions)
GeoDistance(q, id) ==
  calculateDistance(q.lat, q.lon, atms[id].lat, atms[id].lon)

\* id1 comes before id2 in the geodesic ordering from q's reference point:
\* nearer first, catalog order among equals
GeoBefore(q, id1, id2) ==
  \/ GeoDistance(q, id1) < GeoDistance(q, id2)
  \/ GeoDistance(q, id1) = GeoDistance(q, id2) /\ id1 < id2

\* seq lists exactly the first k entries of the geodesic ordering, in order
IsGeoTop(q, seq, k) ==
  /\ Len(seq) = Min2(k, Len(atms))
  /\ \A i \in 1..Len(seq) : seq[i].id \in 1..Len(atms)
  /\ \A i, j \in 1..Len(seq) : i < j => GeoBefore(q, seq[i].id, seq[j].id)
  /\ \A i \in 1..Len(seq) : \A id \in 1..Len(atms) :
       (\A j \in 1..Len(seq) : seq[j].id # id) => GeoBefore(q, seq[i].id, id)

\* every entry carries its geodesic distance and no duration
CarriesGeo(q, e) ==
  /\ e.distance = GeoDistance(q, e.id)
  /\ "duration" \notin DOMAIN e

\* how the promise of request q settled
Settled(q) == q.pc = "done" /\ q.settled # <<>>
HasRouteArray(q) ==
  Settled(q) /\ q.settled[1].kind = "body" /\ q.settled[1].body.hasRoutes
RouteFailed(q) == Settled(q) /\ ~HasRouteArray(q)
RoutesOf(q) == q.settled[1].body.routes

\* the entry of the route array aligned to the destination with this id
PositionIn(seq, id) == CHOOSE p \in 1..Len(seq) : seq[p].id = id
AlignedRoute(q, id) ==
  RouteAt(RoutesOf(q),
          IF variant = "bot" THEN PositionIn(q.dest, id) + 1
          ELSE PositionIn(q.dest, id))
\* the distance the service reported for it, in km
ReportedKm(route) ==
  IF variant = "bot" THEN route[1].distance
  ELSE route[1].distance \div MetresPerKm
CarriesReported(q, e) ==
  /\ HasRouteArray(q)
  /\ HasDistance(AlignedRoute(q, e.id))
  /\ e.distance = ReportedKm(AlignedRoute(q, e.id))

\* one aligned entry for each destination (the bot variant's array starts
\* with the origin-to-origin entry)
AlignedLength(q) ==
  IF variant = "bot" THEN Len(q.dest) + 1 ELSE Len(q.dest)

NonDecreasing(seq) ==
  \A i \in 1..(Len(seq) - 1) : seq[i].distance <= seq[i + 1].distance

(***************************************************************************)
(* C1: the result set of a proximity request is homogeneous: either every  *)
(* returned entry carries the distance the routing service reported for    *)
(* it, or every returned entry carries its geodesic distance.              *)
(***************************************************************************)
C1_Homogeneous ==
  \A r \in Requests :
    Settled(req[r]) =>
      \/ \A i \in 1..Len(req[r].result) :
           CarriesReported(req[r], req[r].result[i])
      \/ \A i \in 1..Len(req[r].result) :
           req[r].result[i].distance = GeoDistance(req[r], req[r].result[i].id)

(***************************************************************************)
(* C2: when the routing call fails (network error, status other than 200,  *)
(* unparseable body, body without the route array) the result is exactly   *)
(* the first Limit entries of the geodesic ordering, with geodesic         *)
(* distances and no duration, and the handler reports no error.            *)
(***************************************************************************)
C2_FallbackIsGeodesic ==
  \A r \in Requests :
    RouteFailed(req[r]) =>
      /\ IsGeoTop(req[r], req[r].result, Limit)
      /\ \A i \in 1..Len(req[r].result) : CarriesGeo(req[r], req[r].result[i])
      /\ req[r].reply # "error"

\* a failed call on a catalog larger than the shortlist, for each kind of failure
C2_Witness ==
  \E r \in Requests :
    /\ RouteFailed(req[r])
    /\ Len(atms) > ShortlistSize
    /\ Len(req[r].result) = Limit
    /\ req[r].settled[1].kind \in {"parse", "body"}

(***************************************************************************)
(* C3: a route array that does not hold one aligned entry per destination  *)
(* is discarded as a whole: the result is the top Limit of the geodesic    *)
(* ordering, each entry with its geodesic distance.                        *)
(***************************************************************************)
C3_MismatchDiscarded ==
  \A r \in Requests :
    (HasRouteArray(req[r]) /\ Len(RoutesOf(req[r])) # AlignedLength(req[r])) =>
      /\ IsGeoTop(req[r], req[r].result, Limit)
      /\ \A i \in 1..Len(req[r].result) :
           req[r].result[i].distance = GeoDistance(req[r], req[r].result[i].id)

(***************************************************************************)
(* C4: whatever the routing outcome, a proximity ranking returns exactly   *)
(* min(Limit, |catalog|) entries, with non-decreasing distances.           *)
(***************************************************************************)
C4_SizeAndOrder ==
  \A r \in Requests :
    (req[r].pc = "done" /\ req[r].reply # "nomatch") =>
      /\ Len(req[r].result) = Min2(Limit, Len(atms))
      /\ NonDecreasing(req[r].result)

\* a refined ranking cut to Limit whose order differs from the geodesic one
C4_Witness ==
  \E r \in Requests :
    /\ HasRouteArray(req[r])
    /\ Len(atms) > Limit
    /\ Len(req[r].result) = Limit
    /\ ~IsGeoTop(req[r], req[r].result, Limit)
    /\ req[r].result[1].distance < req[r].result[Limit].distance

(***************************************************************************)
(* C5: every request that is waiting for the routing service eventually    *)
(* completes, whatever the service does, even if it never answers.         *)
(***************************************************************************)
C5_RefiningLeadsToDone ==
  \A r \in Requests : (req[r].pc = "refining") ~> (req[r].pc = "done")

(***************************************************************************)
(* C6: a request issues at most one routing call; after a failed call it   *)
(* is done, with the fallback, and has still made exactly one call.        *)
(***************************************************************************)
C6_SingleCall ==
  \A r \in Requests :
    /\ req[r].calls <= 1
    /\ (req[r].settled # <<>> /\ req[r].settled[1].kind \in RejectReasons) =>
         (req[r].pc = "done" /\ req[r].calls = 1)

\* a request that is done after a rejected call
C6_Witness ==
  \E r \in Requests :
    /\ RouteFailed(req[r])
    /\ req[r].settled[1].kind \in RejectReasons
    /\ req[r].calls = 1

(***************************************************************************)
(* C7: the destinations of the routing call are exactly the ShortlistSize  *)
(* geodesically nearest catalog entries, in ascending geodesic order,      *)
(* never the unfiltered catalog.                                           *)
(***************************************************************************)
C7_DestinationsAreShortlist ==
  \A r \in Requests :
    req[r].calls > 0 => IsGeoTop(req[r], req[r].dest, ShortlistSize)

(***************************************************************************)
(* C8: findATMsByName returns exactly the catalog entries whose similarity *)
(* score against the query is strictly above 0.3, with no cap on their     *)
(* number, by descending score, equal scores in catalog order.             *)
(***************************************************************************)
EntryScore(query, i) ==
  getSimilarityScore(query, extractNameAfterDash(atms[i].name))

C9_OneEmptyKeyScoresZero ==
  (pure.op = "score" /\ pure.out # <<>>) =>
    LET norm1 == normalizeText(pure.a)
        norm2 == normalizeText(pure.b)
    IN  /\ ((norm1 = <<>>) # (norm2 = <<>>)) => ScoreEQ(pure.out[1], ScoreZero)
        /\ pure.out[1] = ScoreContains => (norm1 # <<>> /\ norm2 # <<>>)

(***************************************************************************)
(* C10: the comparable name is the token after the last '-' of the name,   *)
(* or the whole trimmed name when it has no '-'.                           *)
(***************************************************************************)
AfterLastDash(s) ==
  IF \A i \in 1..Len(s) : s[i] # "-" THEN s
  ELSE LET k == CHOOSE i \in 1..Len(s) :
                  s[i] = "-" /\ \A j \in (i + 1)..Len(s) : s[j] # "-"
       IN  SubSeq(s, k + 1, Len(s))

C10_TokenAfterLastDash ==
  (pure.op = "extract" /\ pure.out # <<>>) =>
    pure.out[1] = Trim(AfterLastDash(pure.a))

(***************************************************************************)
(* C11: getSimilarityScore is symmetric: scoring a against b and b against *)
(* a gives the same number, whether the keys are identical, one contains   *)
(* the other, or the score comes from the edit distance.                   *)
(***************************************************************************)
C11_Symmetric ==
  (pure.op = "both" /\ pure.out # <<>>) =>
    ScoreEQ(pure.out[1], pure.out[2])

\* keys of different lengths, neither inside the other, scored by the edit
\* distance strictly between 0 and 1
C11_Witness ==
  /\ pure.op = "both" /\ pure.out # <<>>
  /\ Len(normalizeText(pure.a)) # Len(normalizeText(pure.b))
  /\ ~Contained(normalizeText(pure.a), normalizeText(pure.b))
  /\ ScoreGT(pure.out[1], ScoreZero)
  /\ ScoreGT(ScoreContains, pure.out[1])

(***************************************************************************)
(* C12: every similarity score lies in [0, 1], the edit distance between   *)
(* the two normalized keys never exceeds the length of the longer key, and *)
(* a string scored against itself gets exactly 1.                          *)
(***************************************************************************)
C12_ScoreInUnitInterval ==
  (pure.op = "score" /\ pure.out # <<>>) =>
    LET norm1 == normalizeText(pure.a)
        norm2 == normalizeText(pure.b)
    IN  /\ pure.out[1].den > 0
        /\ 0 <= pure.out[1].num
        /\ pure.out[1].num <= pure.out[1].den
        /\ \/ Levenshtein(norm1, norm2) <= Len(norm1)
           \/ Levenshtein(norm1, norm2) <= Len(norm2)
        /\ pure.a = pure.b => pure.out[1] = ScoreOne

\* the edit distance equals the longer key's length, which is more than the
\* shorter key's: the score is 0, the lowest value the range allows
C12_Witness ==
  /\ pure.op = "score" /\ pure.out # <<>>
  /\ ~Contained(normalizeText(pure.a), normalizeText(pure.b))
  /\ Len(normalizeText(pure.a)) > Len(normalizeText(pure.b))
  /\ Len(normalizeText(pure.b)) > 0
  /\ Levenshtein(normalizeText(pure.a), normalizeText(pure.b))
       = Len(normalizeText(pure.a))
  /\ ScoreEQ(pure.out[1], ScoreZero)

(***************************************************************************)
(* C13: on a successful routing response (an array with one aligned entry  *)
(* for each destination, each with its distance and duration) every        *)
(* returned entry carries the distance reported for it, a reported 0       *)
(* included, and its duration; the result is the first Limit of the        *)
(* destinations in ascending order of the reported distances, equal ones   *)
(* in the order they were sent.                                            *)
(***************************************************************************)
ReportedDuration(route) ==
  IF variant = "bot" THEN route[1].time ELSE route[1].duration

HasDuration(route) ==
  route # <<>> /\ (IF variant = "bot" THEN "time" ELSE "duration") \in DOMAIN route[1]

Successful(q) ==
  /\ HasRouteArray(q)
  /\ Len(RoutesOf(q)) = AlignedLength(q)
  /\ \A p \in 1..Len(q.dest) :
       /\ HasDistance(AlignedRoute(q, q.dest[p].id))
       /\ HasDuration(AlignedRoute(q, q.dest[p].id))

RefinedBefore(q, id1, id2) ==
  LET d1 == ReportedKm(AlignedRoute(q, id1))
      d2 == ReportedKm(AlignedRoute(q, id2))
  IN  \/ d1 < d2
      \/ d1 = d2 /\ PositionIn(q.dest, id1) < PositionIn(q.dest, id2)

DestIds(q) == {q.dest[p].id : p \in 1..Len(q.dest)}

C13_RefinedRanking ==
  \A r \in Requests :
    Successful(req[r]) =>
      LET q == req[r]
          res == req[r].result
      IN  /\ Len(res) = Min2(Limit, Len(q.dest))
          /\ \A i \in 1..Len(res) :
               /\ res[i].id \in DestIds(q)
               /\ res[i].distance = ReportedKm(AlignedRoute(q, res[i].id))
               /\ res[i].duration = <<ReportedDuration(AlignedRoute(q, res[i].id))>>
          /\ \A i, j \in 1..Len(res) :
               i < j => RefinedBefore(q, res[i].id, res[j].id)
          /\ \A i \in 1..Len(res) : \A id \in DestIds(q) :
               (\A j \in 1..Len(res) : res[j].id # id) =>
                 RefinedBefore(q, res[i].id, id)

(***************************************************************************)
(* C14: a free-text request ranks by proximity to the first entry the name *)
(* matcher returned, which is its highest-scored one; when the matcher     *)
(* returns nothing the request ends with "no match", an empty result, no   *)
(* geodesic ranking and no routing call.                                   *)
(***************************************************************************)
DistanceFrom(ref, id) ==
  calculateDistance(ref.lat, ref.lon, atms[id].lat, atms[id].lon)

\* the geodesic ranking a text request has computed so far
RankedGeo(q) ==
  IF variant = "bot" THEN q.shortlist
  ELSE IF q.pc = "done" THEN q.result ELSE <<>>

C14_ReferenceIsBestMatch ==
  \A r \in Requests :
    req[r].kind = "text" =>
      LET q == req[r]
      IN  IF q.matches = <<>>
          THEN /\ q.pc = "done" /\ q.reply = "nomatch"
               /\ q.result = <<>> /\ q.shortlist = <<>>
               /\ q.dest = <<>> /\ q.calls = 0
          ELSE /\ \A k \in 1..Len(q.matches) :
                    ~ScoreGT(q.matches[k].score, q.matches[1].score)
               /\ q.lat = q.matches[1].lat /\ q.lon = q.matches[1].lon
               /\ RankedGeo(q) # <<>>
               /\ \A i \in 1..Len(RankedGeo(q)) :
                    RankedGeo(q)[i].distance
                      = DistanceFrom(q.matches[1], RankedGeo(q)[i].id)

\* one request ended with no match while another, with two matches at
\* different places, was ranked around the first of them
C14_Witness ==
  \E r1, r2 \in Requests :
    /\ req[r1].kind = "text" /\ req[r1].matches = <<>>
    /\ req[r2].kind = "text" /\ req[r2].pc = "done"
    /\ Len(req[r2].matches) > 1
    /\ req[r2].reply = "results"
    /\ \E id \in 1..Len(atms) :
         DistanceFrom(req[r2].matches[1], id)
           # DistanceFrom(req[r2].matches[Len(req[r2].matches)], id)

(***************************************************************************)
(* C15: the catalog is the one that was loaded, contents and order, in     *)
(* every state of every interleaving of text and location requests,        *)
(* whether their routing calls succeed or fail; and two requests with the  *)
(* same input and the same routing response end with the same result,      *)
(* whatever else was handled meanwhile.                                    *)
(***************************************************************************)
SameInput(q1, q2) ==
  /\ q1.kind = q2.kind /\ q1.query = q2.query
  /\ q1.lat = q2.lat /\ q1.lon = q2.lon
  /\ q1.settled = q2.settled

C15_CatalogReadOnly ==
  /\ atms = Catalog(Len(atms))
  /\ \A r1, r2 \in Requests :
       (req[r1].pc = "done" /\ req[r2].pc = "done"
          /\ SameInput(req[r1], req[r2])) =>
         /\ req[r1].result = req[r2].result
         /\ req[r1].reply = req[r2].reply

\* a text request and a location request have both been ranked, one from a
\* routing response and one after a failed call, each in an order that is
\* not the catalog's; two requests with the same input ended together
C15_Witness ==
  \E r1, r2 \in Requests :
    /\ r1 # r2
    /\ req[r1].pc = "done" /\ req[r2].pc = "done"
    /\ {req[r1].kind, req[r2].kind} = {"text", "location"}
    /\ HasRouteArray(req[r1]) /\ RouteFailed(req[r2])
    /\ Len(req[r1].result) > 1 /\ Len(req[r2].result) > 1
    /\ req[r1].result[1].id > req[r1].result[2].id
    /\ req[r2].result[1].id > req[r2].result[2].id

====
